---- MODULE Spec2Model ----
(***************************************************************************)
(* State-machine model of active_grasp's policies.py: the shared Policy    *)
(* base (sensor callback, grasp selection) and its two strategies,         *)
(* SingleViewBaseline and FixedTrajectoryBaseline.                         *)
(*                                                                         *)
(* Two execution contexts are modelled: the subscriber thread that runs    *)
(* sensor_cb and the decision loop that calls start() and update().        *)
(* Attribute reads and writes are the atomic steps; sensor_cb is split at  *)
(* its blocking frame lookup and update() between the evaluation of the    *)
(* two sample arguments of tsdf.integrate.                                 *)
(*                                                                         *)
(* Units: time in seconds (integer ticks), lengths in units of 0.1 m,      *)
(* angles in quarter turns, rotations as 3x3 integer matrices.             *)
(***************************************************************************)
EXTENDS Integers, Sequences, FiniteSets, TLC

VARIABLES
    strategy,        \* which class get_policy instantiated
    H_B_T,           \* self.H_B_T, looked up once in __init__
    H_EE_G,          \* self.H_EE_G, from the ee_grasp_offset parameter
    now,             \* rospy.Time.now(), in seconds
    nextFrame,       \* number of the next depth message the camera publishes
    last_depth_img,  \* self.last_depth_img: Unset or Some(frame number)
    last_extrinsic,  \* self.last_extrinsic: Unset or Some(frame number)
    cb_pc,           \* position of the subscriber thread inside sensor_cb
    cb_msg,          \* the message sensor_cb is handling
    ingested,        \* some sensor_cb call has run to its end
    tsdf,            \* self.tsdf: the <<image, extrinsic>> pairs integrated so far
    done,            \* self.done: Unset, Some(FALSE) or Some(TRUE)
    best_grasp,      \* self.best_grasp: Unset or Some(pose)
    tic,             \* self.tic (FixedTrajectory)
    origin,          \* self.origin (FixedTrajectory)
    target,          \* self.target (FixedTrajectory)
    pc,              \* position of the decision loop inside update()
    u_img,           \* update(): the evaluated first argument of integrate
    u_elapsed,       \* update(): elapsed_time, kept until the next call
    grasps,          \* the list compute_grasps returned last, as plan_best_grasp left it
    published,       \* the last message published on /target: Unset or Some(pose)
    outcome,         \* how the last start()/update() call ended
    epEvents,        \* calls made by update() since the most recent start()
    driven,          \* the calls since the last start() follow the external loop
    nCalls,          \* update() calls made so far
    nReached         \* update() calls that got to the tsdf.integrate call

vars == <<strategy, H_B_T, H_EE_G, now, nextFrame, last_depth_img, last_extrinsic,
          cb_pc, cb_msg, ingested, tsdf, done, best_grasp, tic, origin, target, pc, u_img,
          u_elapsed, grasps, published, outcome, epEvents, driven, nCalls, nReached>>

----------------------------------------------------------------------------
(* Bounds of the model *)

MaxTime == 5
MaxFrames == 2
MaxCalls == 2
\* grasps in a list of compute_grasps, when the routine is checked on its own
MaxCandidates == 2
\* calls of plan_best_grasp on one list, when the routine is checked on its own
MaxPlans == 2

----------------------------------------------------------------------------
(* Program constants *)

\* self.duration = 4.0 (seconds)
Duration == 4
\* self.radius = 0.1 (one length unit)
Radius == 1

----------------------------------------------------------------------------
(* Attributes that may not exist yet *)

Unset == <<>>
Some(v) == <<v>>
Val(o) == o[1]

----------------------------------------------------------------------------
(* Rotation and Transform of robot_utils.spatial, on integer matrices *)

I3 == <<<<1, 0, 0>>, <<0, 1, 0>>, <<0, 0, 1>>>>
RzQuarter == <<<<0, -1, 0>>, <<1, 0, 0>>, <<0, 0, 1>>>>
RzHalf == <<<<-1, 0, 0>>, <<0, -1, 0>>, <<0, 0, 1>>>>

MatMul(A, B) ==
    LET e(i, j) == A[i][1] * B[1][j] + A[i][2] * B[2][j] + A[i][3] * B[3][j]
    IN  <<<<e(1, 1), e(1, 2), e(1, 3)>>,
          <<e(2, 1), e(2, 2), e(2, 3)>>,
          <<e(3, 1), e(3, 2), e(3, 3)>>>>

Transpose(A) ==
    <<<<A[1][1], A[2][1], A[3][1]>>,
      <<A[1][2], A[2][2], A[3][2]>>,
      <<A[1][3], A[2][3], A[3][3]>>>>

Apply(A, v) ==
    <<A[1][1] * v[1] + A[1][2] * v[2] + A[1][3] * v[3],
      A[2][1] * v[1] + A[2][2] * v[2] + A[2][3] * v[3],
      A[3][1] * v[1] + A[3][2] * v[2] + A[3][3] * v[3]>>

VecAdd(a, b) == <<a[1] + b[1], a[2] + b[2], a[3] + b[3]>>
VecNeg(a) == <<0 - a[1], 0 - a[2], 0 - a[3]>>

Pose(R, t) == [rotation |-> R, translation |-> t]
Identity == Pose(I3, <<0, 0, 0>>)

\* Transform.__mul__
Compose(A, B) ==
    Pose(MatMul(A.rotation, B.rotation),
         VecAdd(Apply(A.rotation, B.translation), A.translation))

\* Transform.inv
Inv(A) ==
    Pose(Transpose(A.rotation), VecNeg(Apply(Transpose(A.rotation), A.translation)))

----------------------------------------------------------------------------
(* Inputs *)

Strategies == {"single-view", "fixed-trajectory"}

\* results of the base <- task lookup of __init__
BaseTransforms == {Pose(RzQuarter, <<1, 0, 0>>)}
\* values of the ee_grasp_offset parameter
GraspOffsets == {Pose(RzHalf, <<0, 0, 1>>)}
\* results of the base <- end-effector lookup of FixedTrajectoryBaseline.start
StartPoses == {Pose(RzQuarter, <<5, 0, 3>>)}

\* the half turn about y, and the quarter turn about y
RyHalf == <<<<-1, 0, 0>>, <<0, 1, 0>>, <<0, 0, -1>>>>
RyQuarter == <<<<0, 0, 1>>, <<0, 1, 0>>, <<-1, 0, 0>>>>

Grasp(p, s, w) == [pose |-> p, score |-> s, width |-> w]
GBack == Grasp(Pose(RzHalf, <<1, 1, 0>>), 9, 2)
GFront == Grasp(Pose(I3, <<2, 0, 1>>), 7, 3)
GSide == Grasp(Pose(RzQuarter, <<0, 2, 1>>), 5, 1)

\* lists compute_grasps may return, best first
ExtractorOutputs == {<<>>, <<GFront>>, <<GBack, GFront>>, <<GSide, GBack>>}

----------------------------------------------------------------------------
(* Policy.plan_best_grasp *)

\* rot.as_matrix()[:, 0]
ForwardAxis(rot) == <<rot[1][1], rot[2][1], rot[3][1]>>

\* if axis[0] < 0
PointsBackward(rot) == ForwardAxis(rot)[1] < 0

\* Mutant: the half turn is applied whatever the forward axis is.
ForwardGrasp_Always(grasp) ==
    [grasp EXCEPT !.pose.rotation = MatMul(grasp.pose.rotation, RzHalf)]

\* the first grasp after "Ensure that the camera is pointing forward": the
\* rotation is assigned to grasp.pose.rotation, that is, to the list's element
ForwardGrasp(grasp) ==
    IF PointsBackward(grasp.pose.rotation)
    THEN [grasp EXCEPT !.pose.rotation = MatMul(grasp.pose.rotation, RzHalf)]
    ELSE grasp

\* Mutant: the inverse offset is applied before the grasp pose.
TargetPose_Swapped(H_T_G) == Compose(Compose(H_B_T, Inv(H_EE_G)), H_T_G)

\* H_B_EE = self.H_B_T * H_T_G * self.H_EE_G.inv()
TargetPose(H_T_G) == Compose(Compose(H_B_T, H_T_G), Inv(H_EE_G))

\* Mutant: the first candidate that already points forward is preferred.
plan_best_grasp_PrefersForward(gs) ==
    IF Len(gs) = 0
    THEN [raised |-> "IndexError", grasps |-> gs, value |-> Unset]
    ELSE LET forward == {i \in 1..Len(gs) : ~PointsBackward(gs[i].pose.rotation)}
             k == IF forward = {} THEN 1
                  ELSE CHOOSE i \in forward : \A j \in forward : i <= j
             grasp == ForwardGrasp(gs[k])
         IN [raised |-> "none",
             grasps |-> [gs EXCEPT ![k] = grasp],
             value |-> Some(TargetPose(grasp.pose))]

\* The whole routine on the list gs that compute_grasps returned: the exception
\* it raises (if any), the list as it leaves it, and the pose it returns.
plan_best_grasp(gs) ==
    IF Len(gs) = 0
    THEN [raised |-> "IndexError", grasps |-> gs, value |-> Unset]
    ELSE LET grasp == ForwardGrasp(gs[1])
         IN  [raised |-> "none",
              grasps |-> [gs EXCEPT ![1] = grasp],
              value  |-> Some(TargetPose(grasp.pose))]

----------------------------------------------------------------------------
(* FixedTrajectoryBaseline: the scan *)

\* Mutant: the angle runs from 0 to 2 pi.
m_FromZero(elapsed_time) == (4 * elapsed_time) \div Duration

\* self.m = interp1d([0, duration], [pi, 3 pi]), in quarter turns
m(elapsed_time) == 2 + (4 * elapsed_time) \div Duration

Cos(q) == CASE q % 4 = 0 -> 1 [] q % 4 = 2 -> -1 [] OTHER -> 0
Sin(q) == CASE q % 4 = 1 -> 1 [] q % 4 = 3 -> -1 [] OTHER -> 0

\* Mutant: the scan also ends at the boundary.
ScanOver_Inclusive(elapsed_time) == elapsed_time >= Duration

\* if elapsed_time > self.duration
ScanOver(elapsed_time) == elapsed_time > Duration

\* self.origin = np.r_[x0.translation[0] + self.radius, x0.translation[1:]]
Origin(x0) == <<x0.translation[1] + Radius, x0.translation[2], x0.translation[3]>>

\* Mutant: the circle is tilted out of the horizontal plane.
ScanPoint_Tilted(o, t) ==
    VecAdd(o, <<Radius * Cos(t), Radius * Sin(t), Radius * Sin(t)>>)

\* self.origin + np.r_[radius * cos(t), radius * sin(t), 0.0]
ScanPoint(o, t) == VecAdd(o, <<Radius * Cos(t), Radius * Sin(t), 0>>)

----------------------------------------------------------------------------
(* UniformTSDFVolume.integrate, as the record of what was integrated *)

\* Mutant: only the first view is fused.
Integrate_FirstOnly(map, img, extrinsic) ==
    IF Len(map) > 0 THEN map ELSE Append(map, <<img, extrinsic>>)

Integrate(map, img, extrinsic) == Append(map, <<img, extrinsic>>)

----------------------------------------------------------------------------
(* The external loop: it calls update() only while the policy is not done *)

LoopMayUpdate == done = Some(FALSE)

----------------------------------------------------------------------------
(* Initial state: a constructed policy. __init__ sets none of done,        *)
(* best_grasp, last_depth_img, last_extrinsic, tic, origin, target.        *)

Init ==
    /\ strategy \in Strategies
    /\ H_B_T \in BaseTransforms
    /\ H_EE_G \in GraspOffsets
    /\ now = 0
    /\ nextFrame = 1
    /\ last_depth_img = Unset
    /\ last_extrinsic = Unset
    /\ cb_pc = "idle"
    /\ cb_msg = 0
    /\ ingested = FALSE
    /\ tsdf = <<>>
    /\ done = Unset
    /\ best_grasp = Unset
    /\ tic = Unset
    /\ origin = Unset
    /\ target = Unset
    /\ pc = "idle"
    /\ u_img = 0
    /\ u_elapsed = 0
    /\ grasps = Unset
    /\ published = Unset
    /\ outcome = "none"
    /\ epEvents = <<>>
    /\ driven = FALSE
    /\ nCalls = 0
    /\ nReached = 0

config == <<strategy, H_B_T, H_EE_G>>
sample == <<last_depth_img, last_extrinsic>>
sensorThread == <<nextFrame, cb_pc, cb_msg, ingested>>
episode == <<done, best_grasp>>
scan == <<tic, origin, target>>
locals == <<pc, u_img, u_elapsed>>
history == <<outcome, epEvents, driven, nCalls, nReached>>

----------------------------------------------------------------------------
(* The clock *)

Tick ==
    /\ now < MaxTime
    /\ now' = now + 1
    /\ UNCHANGED <<config, sample, sensorThread, tsdf, episode, scan, locals,
                   grasps, published, history>>

----------------------------------------------------------------------------
(* Policy.sensor_cb, on the subscriber thread *)

\* self.last_depth_img = ...imgmsg_to_cv2(msg)...
SensorCbImage ==
    /\ cb_pc = "idle"
    /\ nextFrame <= MaxFrames
    /\ last_depth_img' = Some(nextFrame)
    /\ cb_msg' = nextFrame
    /\ nextFrame' = nextFrame + 1
    /\ cb_pc' = "lookup"
    /\ UNCHANGED <<config, now, last_extrinsic, ingested, tsdf, episode, scan,
                   locals, grasps, published, history>>

\* Mutant: a lookup that times out leaves a default (identity) extrinsic.
SensorCbLookup_Default ==
    /\ cb_pc = "lookup"
    /\ \E found \in BOOLEAN :
           /\ last_extrinsic' = IF found THEN Some(cb_msg) ELSE Some(0)
           /\ ingested' = (ingested \/ found)
    /\ cb_pc' = "idle"
    /\ cb_msg' = 0
    /\ UNCHANGED <<config, now, nextFrame, last_depth_img, tsdf, episode, scan,
                   locals, grasps, published, history>>

\* Mutant: the callback fuses the sample into the map itself.
SensorCbLookup_Integrates ==
    /\ cb_pc = "lookup"
    /\ \E found \in BOOLEAN :
           /\ last_extrinsic' = IF found THEN Some(cb_msg) ELSE last_extrinsic
           /\ ingested' = (ingested \/ found)
           /\ tsdf' = IF found THEN Integrate(tsdf, cb_msg, cb_msg) ELSE tsdf
    /\ cb_pc' = "idle"
    /\ cb_msg' = 0
    /\ UNCHANGED <<config, now, nextFrame, last_depth_img, episode, scan,
                   locals, grasps, published, history>>

\* self.last_extrinsic = self.tf.lookup(..., msg.header.stamp, Duration(0.1));
\* the lookup returns the frame's capture transform or raises on timeout
SensorCbLookup ==
    /\ cb_pc = "lookup"
    /\ \E found \in BOOLEAN :
           /\ last_extrinsic' = IF found THEN Some(cb_msg) ELSE last_extrinsic
           /\ ingested' = (ingested \/ found)
    /\ cb_pc' = "idle"
    /\ cb_msg' = 0
    /\ UNCHANGED <<config, now, nextFrame, last_depth_img, tsdf, episode, scan,
                   locals, grasps, published, history>>

----------------------------------------------------------------------------
(* Ending a call of the decision loop *)

Return(how) ==
    /\ outcome' = how
    /\ pc' = "idle"
    /\ u_img' = 0

\* Mutant: an exception of the planning call resets the episode.
PlanAndFinish_ResetOnRaise(log) ==
    \E gs \in ExtractorOutputs :
      LET plan == plan_best_grasp(gs) IN
      /\ grasps' = Some(plan.grasps)
      /\ UNCHANGED published
      /\ IF plan.raised # "none"
         THEN /\ Return(plan.raised)
              /\ epEvents' = log \o <<"plan_raised">>
              /\ done' = Some(FALSE)
              /\ UNCHANGED best_grasp
         ELSE /\ best_grasp' = plan.value
              /\ done' = Some(TRUE)
              /\ epEvents' = log \o <<"plan">>
              /\ Return("ok")

\* Mutant: self.done = True is assigned before the planning call.
PlanAndFinish_DoneFirst(log) ==
    \E gs \in ExtractorOutputs :
      LET plan == plan_best_grasp(gs) IN
      /\ grasps' = Some(plan.grasps)
      /\ UNCHANGED published
      /\ done' = Some(TRUE)
      /\ IF plan.raised # "none"
         THEN /\ Return(plan.raised)
              /\ epEvents' = log \o <<"plan_raised">>
              /\ UNCHANGED best_grasp
         ELSE /\ best_grasp' = plan.value
              /\ epEvents' = log \o <<"plan">>
              /\ Return("ok")

\* Mutant: self.done = True is missing.
PlanAndFinish_ForgetsDone(log) ==
    \E gs \in ExtractorOutputs :
      LET plan == plan_best_grasp(gs) IN
      /\ grasps' = Some(plan.grasps)
      /\ UNCHANGED published
      /\ IF plan.raised # "none"
         THEN /\ Return(plan.raised)
              /\ epEvents' = log \o <<"plan_raised">>
              /\ UNCHANGED episode
         ELSE /\ best_grasp' = plan.value
              /\ UNCHANGED done
              /\ epEvents' = log \o <<"plan">>
              /\ Return("ok")

\* Mutant: the planned pose is also sent to the controller.
PlanAndFinish_Publishes(log) ==
    \E gs \in ExtractorOutputs :
      LET plan == plan_best_grasp(gs) IN
      /\ grasps' = Some(plan.grasps)
      /\ IF plan.raised # "none"
         THEN /\ Return(plan.raised)
              /\ epEvents' = log \o <<"plan_raised">>
              /\ UNCHANGED <<episode, published>>
         ELSE /\ best_grasp' = plan.value
              /\ done' = Some(TRUE)
              /\ published' = plan.value
              /\ epEvents' = log \o <<"plan", "publish">>
              /\ Return("ok")

\* self.best_grasp = self.plan_best_grasp(); self.done = True; return
\* (log: the calls the episode has made up to the planning call)
PlanAndFinish(log) ==
    \E gs \in ExtractorOutputs :
      LET plan == plan_best_grasp(gs) IN
      /\ grasps' = Some(plan.grasps)
      /\ UNCHANGED published
      /\ IF plan.raised # "none"
         THEN /\ Return(plan.raised)
              /\ epEvents' = log \o <<"plan_raised">>
              /\ UNCHANGED episode
         ELSE /\ best_grasp' = plan.value
              /\ done' = Some(TRUE)
              /\ epEvents' = log \o <<"plan">>
              /\ Return("ok")

----------------------------------------------------------------------------
(* SingleViewBaseline *)

\* Mutant: start() begins the episode with an empty map.
SV_Start_ClearsMap ==
    /\ strategy = "single-view"
    /\ pc = "idle"
    /\ done' = Some(FALSE)
    /\ outcome' = "ok"
    /\ epEvents' = <<>>
    /\ driven' = TRUE
    /\ tsdf' = <<>>
    /\ UNCHANGED <<config, now, sample, sensorThread, best_grasp, scan,
                   locals, grasps, published, nCalls, nReached>>

\* start(): self.done = False
SV_Start ==
    /\ strategy = "single-view"
    /\ pc = "idle"
    /\ done' = Some(FALSE)
    /\ outcome' = "ok"
    /\ epEvents' = <<>>
    /\ driven' = TRUE
    /\ UNCHANGED <<config, now, sample, sensorThread, tsdf, best_grasp, scan,
                   locals, grasps, published, nCalls, nReached>>

\* update(), up to the evaluation of self.last_depth_img
SV_UpdateImage ==
    /\ strategy = "single-view"
    /\ pc = "idle"
    /\ nCalls < MaxCalls
    /\ nCalls' = nCalls + 1
    /\ driven' = (driven /\ LoopMayUpdate)
    /\ u_elapsed' = 0
    /\ IF last_depth_img = Unset
       THEN /\ Return("AttributeError: last_depth_img")
       ELSE /\ u_img' = Val(last_depth_img)
            /\ pc' = "args"
            /\ UNCHANGED outcome
    /\ UNCHANGED <<config, now, sample, sensorThread, tsdf, episode, scan,
                   grasps, published, epEvents, nReached>>

\* update(), from the evaluation of self.last_extrinsic to the return
SV_UpdateRest ==
    /\ strategy = "single-view"
    /\ pc = "args"
    /\ IF last_extrinsic = Unset
       THEN /\ Return("AttributeError: last_extrinsic")
            /\ UNCHANGED <<tsdf, episode, grasps, published, epEvents, nReached>>
       ELSE /\ tsdf' = Integrate(tsdf, u_img, Val(last_extrinsic))
            /\ nReached' = nReached + 1
            /\ PlanAndFinish(epEvents \o <<"integrate">>)
    /\ UNCHANGED <<config, now, sample, sensorThread, scan, u_elapsed, driven,
                   nCalls>>

----------------------------------------------------------------------------
(* FixedTrajectoryBaseline *)

\* start(): self.tic is assigned before the lookup, which may time out
FT_Start ==
    /\ strategy = "fixed-trajectory"
    /\ pc = "idle"
    /\ tic' = Some(now)
    /\ epEvents' = <<>>
    /\ \E found \in BOOLEAN, x0 \in StartPoses :
         IF found
         THEN /\ origin' = Some(Origin(x0))
              /\ target' = Some(x0)
              /\ done' = Some(FALSE)
              /\ outcome' = "ok"
              /\ driven' = TRUE
         ELSE /\ outcome' = "LookupTimeout"
              /\ driven' = FALSE
              /\ UNCHANGED <<origin, target, done>>
    /\ UNCHANGED <<config, now, sample, sensorThread, tsdf, best_grasp, locals,
                   grasps, published, nCalls, nReached>>

\* update(), up to the evaluation of self.last_depth_img
FT_UpdateImage ==
    /\ strategy = "fixed-trajectory"
    /\ pc = "idle"
    /\ nCalls < MaxCalls
    /\ nCalls' = nCalls + 1
    /\ driven' = (driven /\ LoopMayUpdate)
    /\ IF tic = Unset
       THEN /\ Return("AttributeError: tic")
            /\ u_elapsed' = 0
       ELSE /\ u_elapsed' = now - Val(tic)
            /\ IF last_depth_img = Unset
               THEN /\ Return("AttributeError: last_depth_img")
               ELSE /\ u_img' = Val(last_depth_img)
                    /\ pc' = "args"
                    /\ UNCHANGED outcome
    /\ UNCHANGED <<config, now, sample, sensorThread, tsdf, episode, scan,
                   grasps, published, epEvents, nReached>>

\* update(), from the evaluation of self.last_extrinsic to the return
FT_UpdateRest ==
    /\ strategy = "fixed-trajectory"
    /\ pc = "args"
    /\ IF last_extrinsic = Unset
       THEN /\ Return("AttributeError: last_extrinsic")
            /\ UNCHANGED <<tsdf, episode, target, grasps, published, epEvents,
                           nReached>>
       ELSE /\ tsdf' = Integrate(tsdf, u_img, Val(last_extrinsic))
            /\ nReached' = nReached + 1
            /\ IF ScanOver(u_elapsed)
               THEN /\ PlanAndFinish(epEvents \o <<"integrate">>)
                    /\ UNCHANGED target
               ELSE IF origin = Unset
               THEN /\ Return("AttributeError: origin")
                    /\ epEvents' = epEvents \o <<"integrate">>
                    /\ UNCHANGED <<episode, target, grasps, published>>
               ELSE LET t == m(u_elapsed)
                        pose == [Val(target) EXCEPT
                                    !.translation = ScanPoint(Val(origin), t)]
                    IN  /\ target' = Some(pose)
                        /\ published' = Some(pose)
                        /\ epEvents' = epEvents \o <<"integrate", "publish">>
                        /\ Return("ok")
                        /\ UNCHANGED <<episode, grasps>>
    /\ UNCHANGED <<config, now, sample, sensorThread, tic, origin, u_elapsed,
                   driven, nCalls>>

----------------------------------------------------------------------------

Next ==
    \/ Tick
    \/ SensorCbImage
    \/ SensorCbLookup
    \/ SV_Start
    \/ SV_UpdateImage
    \/ SV_UpdateRest
    \/ FT_Start
    \/ FT_UpdateImage
    \/ FT_UpdateRest

Spec == Init /\ [][Next]_vars

----------------------------------------------------------------------------
(* plan_best_grasp on its own: a policy whose compute_grasps call (line 77) *)
(* has returned a list, over more rotations, base transforms and offsets   *)
(* than the episodes above draw, and the routine run on that list. A       *)
(* second run meets the first candidate as the first run left it.          *)

\* forward axis along -x (RzHalf, RyHalf), across x (RzQuarter, RyQuarter,
\* three quarter turns about z) and along +x (I3)
PlanRotations ==
    {I3, RzQuarter, RzHalf, MatMul(RzHalf, RzQuarter), RyHalf, RyQuarter}

PlanBaseTransforms == BaseTransforms \cup {Identity}
PlanGraspOffsets == GraspOffsets \cup {Identity}

\* a list of compute_grasps with the given rotations: best score first
CandidateList(rots) ==
    [i \in 1..Len(rots) |-> Grasp(Pose(rots[i], <<i, 1, 0>>), 10 - i, 2)]

PlanCandidateLists ==
    {CandidateList(rots) :
        rots \in UNION {[1..n -> PlanRotations] : n \in 0..MaxCandidates}}

PlanInit ==
    /\ strategy \in Strategies
    /\ H_B_T \in PlanBaseTransforms
    /\ H_EE_G \in PlanGraspOffsets
    /\ grasps \in {Some(gs) : gs \in PlanCandidateLists}
    /\ now = 0
    /\ nextFrame = 1
    /\ last_depth_img = Unset
    /\ last_extrinsic = Unset
    /\ cb_pc = "idle"
    /\ cb_msg = 0
    /\ ingested = FALSE
    /\ tsdf = <<>>
    /\ done = Unset
    /\ best_grasp = Unset
    /\ tic = Unset
    /\ origin = Unset
    /\ target = Unset
    /\ pc = "idle"
    /\ u_img = 0
    /\ u_elapsed = 0
    /\ published = Unset
    /\ outcome = "none"
    /\ epEvents = <<>>
    /\ driven = FALSE
    /\ nCalls = 0
    /\ nReached = 0

\* lines 82-92 on the list in hand: the first grasp is turned in place, the
\* composed pose is returned (kept in best_grasp), or grasps[0] raises
Plan_Select ==
    /\ nCalls < MaxPlans
    /\ LET plan == plan_best_grasp(Val(grasps)) IN
       /\ grasps' = Some(plan.grasps)
       /\ best_grasp' = IF plan.raised = "none" THEN plan.value ELSE best_grasp
       /\ outcome' = IF plan.raised = "none" THEN "ok" ELSE plan.raised
    /\ nCalls' = nCalls + 1
    /\ UNCHANGED <<config, now, sample, sensorThread, tsdf, done, scan, locals,
                   published, epEvents, driven, nReached>>

PlanNext == Plan_Select

PlanSpec == PlanInit /\ [][PlanNext]_vars

----------------------------------------------------------------------------
(* The policy under the external loop, for the progress properties: the    *)
(* loop calls start() when no episode is running and update() while the    *)
(* episode is not done, the call runs to its end, the clock advances, and  *)
(* compute_grasps finds at least one grasp.                                *)

LoopMayStart == ~driven \/ done = Some(TRUE)

Loop_SV_Start == LoopMayStart /\ SV_Start
Loop_SV_UpdateImage == driven /\ LoopMayUpdate /\ SV_UpdateImage
Loop_SV_UpdateRest == SV_UpdateRest /\ grasps' # Some(<<>>)
Loop_FT_Start == LoopMayStart /\ FT_Start
Loop_FT_UpdateImage == driven /\ LoopMayUpdate /\ FT_UpdateImage
Loop_FT_UpdateRest == FT_UpdateRest /\ grasps' # Some(<<>>)

LoopNext ==
    \/ Tick
    \/ SensorCbImage
    \/ SensorCbLookup
    \/ Loop_SV_Start
    \/ Loop_SV_UpdateImage
    \/ Loop_SV_UpdateRest
    \/ Loop_FT_Start
    \/ Loop_FT_UpdateImage
    \/ Loop_FT_UpdateRest

\* the loop's thread is scheduled: an update() call it may make, or has
\* begun, is eventually made, or ended (at most one of the four is enabled)
LoopUpdate ==
    \/ Loop_SV_UpdateImage
    \/ SV_UpdateRest
    \/ Loop_FT_UpdateImage
    \/ FT_UpdateRest

LoopFairness == WF_vars(LoopUpdate)

LoopSpec == Init /\ [][LoopNext]_vars /\ LoopFairness

----------------------------------------------------------------------------
(* Vocabulary of the properties *)

SV == strategy = "single-view"
FT == strategy = "fixed-trajectory"

Count(log, e) == Cardinality({i \in 1..Len(log) : log[i] = e})
PlanCalls(log) == Count(log, "plan") + Count(log, "plan_raised")
Last(log) == log[Len(log)]

\* a step in which update() evaluates self.last_depth_img
UpdateReadsImage == nCalls' # nCalls
\* a step in which update() runs from self.last_extrinsic to its end
UpdateRuns == pc = "args" /\ pc' = "idle"
\* a step in which an update() call returns or raises
UpdateEnds == pc' = "idle" /\ (UpdateReadsImage \/ UpdateRuns)

\* the exceptions of update() that name a missing sample attribute
SensorUnavailable ==
    {"AttributeError: last_depth_img", "AttributeError: last_extrinsic"}

----------------------------------------------------------------------------
(* C1: the image and the capture transform of every integrate call belong  *)
(* to the same ingested frame.                                             *)
C1_SameFrame == \A i \in 1..Len(tsdf) : tsdf[i][1] = tsdf[i][2]

----------------------------------------------------------------------------
----------------------------------------------------------------------------
(* C3: when compute_grasps returns an empty list, the planning call ends   *)
(* with NoGraspFound without indexing the list (an IndexError is the       *)
(* exception of grasps[0] itself), and update() neither sets done nor      *)
(* stores a grasp.                                                         *)
C3_NoGraspFound ==
    [][(UpdateRuns /\ PlanCalls(epEvents') > PlanCalls(epEvents)
                   /\ grasps' = Some(<<>>)) =>
         /\ outcome' = "NoGraspFound"
         /\ done' = done
         /\ best_grasp' = best_grasp]_vars

----------------------------------------------------------------------------
----------------------------------------------------------------------------
(* C5, as claimed: a SingleView episode driven by the external loop has,   *)
(* once Done, made exactly one integrate call and then exactly one         *)
(* planning call, and nothing was published.                               *)
C5_ExactlyOnce ==
    (SV /\ driven /\ done = Some(TRUE)) =>
        epEvents = <<"integrate", "plan">> /\ published = Unset

(* C5, amended: SingleView never publishes; every update() that reaches    *)
(* the integration step integrates once and then plans once; an episode    *)
(* driven by the external loop has exactly one successful planning call    *)
(* when Done and none before, each failed planning call having cost one    *)
(* more integrate call.                                                    *)
C5_OncePerAttempt ==
    SV =>
      /\ published = Unset
      /\ Len(epEvents) % 2 = 0
      /\ \A i \in 1..Len(epEvents) :
            IF i % 2 = 1 THEN epEvents[i] = "integrate"
                         ELSE epEvents[i] \in {"plan", "plan_raised"}
      /\ (driven /\ done = Some(TRUE)) =>
            /\ Count(epEvents, "plan") = 1
            /\ Last(epEvents) = "plan"
            /\ Count(epEvents, "integrate") = 1 + Count(epEvents, "plan_raised")
      /\ (driven /\ done = Some(FALSE)) => Count(epEvents, "plan") = 0

\* a driven SingleView episode that is Done after one failed planning call
C5_RetriedEpisode ==
    SV /\ driven /\ done = Some(TRUE) /\ Count(epEvents, "plan_raised") = 1

----------------------------------------------------------------------------
(* C6, as claimed: a FixedTrajectory episode makes at most one planning    *)
(* call, and is Done once it has made it.                                  *)
C6_PlansOnce ==
    FT => /\ PlanCalls(epEvents) <= 1
          /\ PlanCalls(epEvents) = 1 => done = Some(TRUE)

(* C6, amended: FixedTrajectory plans only when the elapsed time exceeds   *)
(* the scan duration, and publishes no motion command after a planning     *)
(* call of the episode; in an episode driven by the external loop at most  *)
(* one planning call succeeds, it is the last call, and the policy is Done *)
(* exactly when it has succeeded.                                          *)
C6_PlansWhenScanOver ==
    FT =>
      /\ PlanCalls(epEvents) > 0 => (tic # Unset /\ now - Val(tic) > Duration)
      /\ \A i, j \in 1..Len(epEvents) :
            (i < j /\ epEvents[i] \in {"plan", "plan_raised"})
                => epEvents[j] # "publish"
      /\ driven =>
            /\ Count(epEvents, "plan") <= 1
            /\ done = Some(TRUE) <=> Count(epEvents, "plan") = 1
            /\ Count(epEvents, "plan") = 1 => Last(epEvents) = "plan"

\* a driven FixedTrajectory episode that is Done after a failed planning call
C6_PlannedTwice ==
    FT /\ driven /\ done = Some(TRUE) /\ Count(epEvents, "plan_raised") >= 1

----------------------------------------------------------------------------
\* a FixedTrajectory update() with elapsed_time = duration that ends normally
AtBoundary == FT /\ UpdateRuns /\ u_elapsed = Duration /\ outcome' = "ok"

(* C7, as claimed: update() at elapsed = D plans and sets Done instead of  *)
(* publishing a motion command.                                            *)
C7_BoundaryPlans ==
    [][AtBoundary =>
         /\ done' = Some(TRUE)
         /\ Last(epEvents') = "plan"
         /\ published' = published]_vars

(* C7, amended: update() at elapsed = D publishes the motion command of    *)
(* angle 3 pi (the point origin - (r, 0, 0)) and neither plans nor sets    *)
(* Done; only elapsed > D plans.                                           *)
C7_BoundaryMoves ==
    [][AtBoundary =>
         /\ epEvents' = epEvents \o <<"integrate", "publish">>
         /\ published' # Unset
         /\ Val(published').translation = VecAdd(Val(origin), <<0 - Radius, 0, 0>>)
         /\ done' = done
         /\ best_grasp' = best_grasp]_vars

\* the last update() ran at elapsed = D and published
C7_MovedAtBoundary ==
    /\ FT /\ pc = "idle" /\ nCalls > 0
    /\ u_elapsed = Duration
    /\ outcome = "ok"
    /\ epEvents # <<>> /\ Last(epEvents) = "publish"

----------------------------------------------------------------------------
(* C8: a FixedTrajectory update() that ends normally has integrated and    *)
(* then either (elapsed > D) planned, stored the result and set Done       *)
(* without publishing, or (otherwise) published exactly one motion command *)
(* without planning or setting Done.                                       *)
C8_PlanOrMove ==
    [][(FT /\ UpdateRuns /\ outcome' = "ok") =>
         IF u_elapsed > Duration
         THEN /\ epEvents' = epEvents \o <<"integrate", "plan">>
              /\ done' = Some(TRUE)
              /\ grasps' # Unset /\ Val(grasps') # <<>>
              /\ best_grasp' = Some(TargetPose(Val(grasps')[1].pose))
              /\ published' = published
              /\ target' = target
         ELSE /\ epEvents' = epEvents \o <<"integrate", "publish">>
              /\ published' # Unset
              /\ published' = target'
              /\ done' = done
              /\ best_grasp' = best_grasp
              /\ grasps' = grasps]_vars

\* an episode in which update() has moved and then planned
C8_BothBranches ==
    /\ FT /\ pc = "idle" /\ outcome = "ok"
    /\ Count(epEvents, "publish") >= 1
    /\ Last(epEvents) = "plan"

----------------------------------------------------------------------------
(* C9: the map holds one integration per update() call that reached the    *)
(* integration step, and every planning call and every motion command is   *)
(* preceded, in the same cycle, by that cycle's integrate call.            *)
C9_IntegratePerCycle ==
    /\ Len(tsdf) = nReached
    /\ \A i \in 1..Len(epEvents) :
          epEvents[i] # "integrate" => (i > 1 /\ epEvents[i - 1] = "integrate")

\* the final FixedTrajectory cycle, which plans, has integrated too
C9_FinalCycleIntegrated ==
    /\ FT /\ pc = "idle"
    /\ nReached = 2 /\ Len(tsdf) = 2
    /\ epEvents = <<"integrate", "publish", "integrate", "plan">>

----------------------------------------------------------------------------
(* C10: an update() call that ends with an exception leaves done and       *)
(* best_grasp as they were before the call.                                *)
C10_FailureKeepsState ==
    [][(UpdateEnds /\ outcome' # "ok") =>
         (done' = done /\ best_grasp' = best_grasp)]_vars

\* a planning call failed in a running episode that follows a finished one
C10_SelectionFailed ==
    outcome = "IndexError" /\ done = Some(FALSE) /\ best_grasp # Unset

----------------------------------------------------------------------------
\* an episode the loop is running, with a complete sample, whose next
\* update() call can be made and (FixedTrajectory) falls after the scan
ReadyToFinish ==
    /\ driven /\ done = Some(FALSE) /\ ingested
    /\ pc = "idle" => nCalls < MaxCalls
    /\ FT => IF pc = "idle" THEN now - Val(tic) > Duration
                            ELSE u_elapsed > Duration

(* C11: under the external loop, with a sample ingested and a non-empty    *)
(* candidate list, a started episode reaches Done: SingleView by every     *)
(* update() that ends normally, FixedTrajectory by the update() whose      *)
(* elapsed time exceeds D, every update() before that leaving it not Done. *)
C11_ReachesDone ==
    /\ ReadyToFinish ~> (done = Some(TRUE))
    /\ [][(SV /\ UpdateRuns /\ outcome' = "ok") => done' = Some(TRUE)]_vars
    /\ [][(FT /\ UpdateRuns /\ u_elapsed <= Duration) => done' = done]_vars

\* a FixedTrajectory episode that scanned, then planned, under the loop
C11_ScannedThenDone ==
    /\ FT /\ driven /\ done = Some(TRUE)
    /\ epEvents = <<"integrate", "publish", "integrate", "plan">>

----------------------------------------------------------------------------
(* Claims about plan_best_grasp, checked under PlanSpec *)

\* a run of plan_best_grasp on a non-empty list
Selects == nCalls' # nCalls /\ Len(Val(grasps)) > 0

(* C12: turning the first grasp forward is idempotent: the grasp the       *)
(* routine leaves is not turned again by another run, and a grasp whose    *)
(* forward axis has a non-negative x component is left as it was.          *)
C12_CanonicalizeIdempotent ==
    [][Selects =>
        LET before == Val(grasps)[1]
            after == Val(grasps')[1]
        IN /\ ForwardGrasp(after) = after
           /\ ~PointsBackward(before.pose.rotation) => after = before
           /\ nCalls > 0 => after = before]_vars

\* the routine has run twice on a list whose first grasp pointed along -x
\* about y: it was turned once (RyHalf is turned into the half turn about x,
\* which no extractor output of PlanRotations has)
C12_TurnedOnce ==
    /\ nCalls = 2
    /\ outcome = "ok"
    /\ Val(grasps)[1].pose.rotation = MatMul(RyHalf, RzHalf)

(* C13: the pose plan_best_grasp returns is the cached base transform, then *)
(* the (turned) pose of the first grasp, then the inverse of the grasp      *)
(* offset: rotation R_B R_G R_E^T and translation                           *)
(* t_B + R_B t_G - R_B R_G R_E^T t_E; with the identity offset it is the    *)
(* base transform composed with the grasp pose.                             *)
C13_ComposedInOrder ==
    (nCalls > 0 /\ outcome = "ok") =>
        LET G == Val(grasps)[1].pose
            R == MatMul(MatMul(H_B_T.rotation, G.rotation),
                        Transpose(H_EE_G.rotation))
            t == VecAdd(VecAdd(H_B_T.translation,
                               Apply(H_B_T.rotation, G.translation)),
                        VecNeg(Apply(R, H_EE_G.translation)))
        IN /\ best_grasp = Some(Pose(R, t))
           /\ H_EE_G = Identity => best_grasp = Some(Compose(H_B_T, G))

\* a pose was returned with neither the base transform nor the offset the
\* identity, for a first grasp that was turned
C13_ComposedAll ==
    /\ nCalls = 1
    /\ outcome = "ok"
    /\ H_B_T # Identity
    /\ H_EE_G # Identity
    /\ Val(grasps)[1].pose.rotation = MatMul(RyHalf, RzHalf)

(* C14: on a non-empty list the result comes from the first grasp alone:   *)
(* the selected grasp keeps the first grasp's score, width and             *)
(* translation, its rotation is the first grasp's, half-turned about z     *)
(* exactly when that one points backward, every later grasp stays where it *)
(* was, and every list with the same first grasp gives the same pose.      *)
C14_FirstCandidateOnly ==
    [][Selects =>
        LET first == Val(grasps)[1]
            chosen == Val(grasps')[1]
            turned == IF first.pose.rotation[1][1] < 0
                      THEN MatMul(first.pose.rotation, RzHalf)
                      ELSE first.pose.rotation
        IN /\ chosen = Grasp(Pose(turned, first.pose.translation),
                             first.score, first.width)
           /\ best_grasp' = Some(TargetPose(chosen.pose))
           /\ Tail(Val(grasps')) = Tail(Val(grasps))
           /\ \A other \in PlanCandidateLists :
                (Len(other) > 0 /\ other[1] = first) =>
                    plan_best_grasp(other).value = best_grasp']_vars

\* the best grasp of a two-grasp list pointed backward and was turned, while
\* the second one pointed forward already
C14_BackwardBeatsForward ==
    /\ nCalls = 1
    /\ outcome = "ok"
    /\ Len(Val(grasps)) = 2
    /\ Val(grasps)[1].pose.rotation = MatMul(RyHalf, RzHalf)
    /\ Val(grasps)[1].score = 9
    /\ Val(grasps)[2].pose.rotation = I3

(* C15: plan_best_grasp leaves every grasp of the list, the first one      *)
(* included, with the pose, score and width compute_grasps gave it.        *)
C15_CandidatesKept ==
    [][Selects => grasps' = grasps]_vars

----------------------------------------------------------------------------
(* Claims about the scan, the sensor callback and start(), checked under   *)
(* Spec                                                                    *)

\* a step in which FixedTrajectoryBaseline.update publishes a target pose
Publishes ==
    /\ FT /\ UpdateRuns
    /\ Len(epEvents') > Len(epEvents)
    /\ Last(epEvents') = "publish"

\* the last update() call of the running episode published, with elapsed time e
PublishedAt(e) ==
    /\ FT /\ pc = "idle" /\ outcome = "ok"
    /\ Len(epEvents) > 0 /\ Last(epEvents) = "publish"
    /\ u_elapsed = e

(* C16: every target pose FixedTrajectory publishes has the rotation and   *)
(* the z translation of x0 as start() stored it in self.target: an         *)
(* update() that publishes changes the x and y translation of the target   *)
(* and nothing else of it.                                                 *)
C16_OnlyHorizontalMoves ==
    /\ [](FT /\ target # Unset =>
            \E x0 \in StartPoses :
                /\ Val(target).rotation = x0.rotation
                /\ Val(target).translation[3] = x0.translation[3])
    /\ [][Publishes =>
            /\ published' = target'
            /\ Val(target').rotation = Val(target).rotation
            /\ Val(target').translation[3] = Val(target).translation[3]]_vars

\* the scan has left x0: the published pose is away from x0, upright as x0
C16_MovedUpright ==
    /\ PublishedAt(1)
    /\ \E x0 \in StartPoses :
        /\ Val(published).rotation = x0.rotation
        /\ Val(published).translation # x0.translation

(* C17: the published translations lie on the circle of radius r about     *)
(* origin = x0.translation + (r, 0, 0), in the plane of x0: x0 itself at   *)
(* elapsed time 0 and x0 + (2r, 0, 0) at half the duration.                *)
C17_OnCircle ==
    \A e \in 0..MaxTime :
        PublishedAt(e) =>
            \E x0 \in StartPoses :
                LET p == Val(published).translation
                    o == Val(origin)
                    dx == p[1] - o[1]
                    dy == p[2] - o[2]
                IN /\ o = VecAdd(x0.translation, <<Radius, 0, 0>>)
                   /\ dx * dx + dy * dy = Radius * Radius
                   /\ p[3] = o[3]
                   /\ e = 0 => p = x0.translation
                   /\ 2 * e = Duration =>
                        p = VecAdd(x0.translation, <<2 * Radius, 0, 0>>)

\* half way through the scan the target is the far point of the circle
C17_FarPoint ==
    /\ PublishedAt(2)
    /\ 2 * u_elapsed = Duration
    /\ Val(published).translation = <<7, 0, 3>>

\* a step of sensor_cb
SensorCbRuns == cb_pc' # cb_pc

(* C18: sensor_cb assigns last_depth_img and last_extrinsic only: the map, *)
(* done, best_grasp, H_B_T and the scan attributes are as before each of   *)
(* its steps, wherever update() stands, and the map changes only in a step *)
(* of update().                                                            *)
C18_SensorWritesSampleOnly ==
    /\ [][SensorCbRuns =>
            UNCHANGED <<tsdf, done, best_grasp, H_B_T, H_EE_G, tic, origin,
                        target, published, pc, u_img>>]_vars
    /\ [][tsdf' # tsdf => UpdateRuns]_vars

\* sensor_cb has assigned a new image between the two reads of an update()
\* that follows an earlier, integrated, one
C18_CallbackInsideUpdate ==
    /\ pc = "args"
    /\ cb_pc = "lookup"
    /\ Len(tsdf) = 1
    /\ last_depth_img # Some(u_img)

(* C19: whenever done is True a best grasp is stored, and a plan_best_grasp *)
(* call has returned it since the most recent start().                      *)
C19_DoneHasFreshGrasp ==
    done = Some(TRUE) =>
        /\ best_grasp # Unset
        /\ Count(epEvents, "plan") > 0

IsPrefix(a, b) == Len(a) <= Len(b) /\ SubSeq(b, 1, Len(a)) = a

(* C20: start() leaves the map, last_depth_img and last_extrinsic as they  *)
(* were, and no step takes anything out of the map: what an earlier        *)
(* episode integrated is in the map a later episode plans on.              *)
C20_StartKeepsMap ==
    /\ [][(SV_Start \/ FT_Start) =>
            UNCHANGED <<tsdf, last_depth_img, last_extrinsic>>]_vars
    /\ [][IsPrefix(tsdf, tsdf')]_vars

\* a second episode has planned on a map that holds the first episode's view
C20_SecondEpisodePlanned ==
    /\ SV /\ done = Some(TRUE)
    /\ epEvents = <<"integrate", "plan">>
    /\ Len(tsdf) = 2

====
